---- MODULE Spec2Model ----
(***************************************************************************)
(* BBStateControl (bit_based_state_control.cpp / .h): a fixed-capacity set *)
(* of boolean states packed into a byte array, with a cached trueIndex and *)
(* a saved copy.  An object is a record with the class's six members; the  *)
(* member functions are operators from the object (and arguments) to the   *)
(* object after the call.  Two objects exist: self, on which every public  *)
(* member function is called, and source, the argument of copyStatesFrom.  *)
(***************************************************************************)
EXTENDS Integers, Sequences, FiniteSets, TLC

(***************************************************************************)
(* Bounds of the exploration.                                              *)
(***************************************************************************)
\* Sizes 0..MaxSize are requested at construction.
MaxSize == 2

SmallSizes == 0..MaxSize

\* Buffers of 1..MaxBufSize characters are passed to serializeStates.
MaxBufSize == 4

\* The sizes requested above 254: 255 (clamped to 254) and 300 (converted to
\* the constructor's uint8_t parameter first).
WideSizes == {255, 300}

\* Outcome of the two new[] expressions of the constructor.
Allocs == {"ok", "array_fails", "savedState_fails"}

\* Outcome of the new[] expression of getAllTrueIndices.
IndicesAllocs == {"ok", "indices_fails"}

(***************************************************************************)
(* Integer types.                                                          *)
(***************************************************************************)
\* Conversion to uint8_t.
ToUint8(x) == x % 256

\* Conversion to int8_t (two's complement, as on every Arduino target).
ToInt8(x) == IF x % 256 >= 128 THEN (x % 256) - 256 ELSE x % 256

\* Bit k of a byte.
Bit(b, k) == (b \div (2 ^ k)) % 2

\* a & b on 8 bits.
BitAnd(a, b) ==
    LET f[k \in 0..8] ==
          IF k = 8 THEN 0
          ELSE (IF Bit(a, k) = 1 /\ Bit(b, k) = 1 THEN 2 ^ k ELSE 0) + f[k + 1]
    IN  f[0]

\* b | (1 << k) and b & ~(1 << k) on 8 bits.
OrBit(b, k) == IF Bit(b, k) = 1 THEN b ELSE b + 2 ^ k

AndNotBit(b, k) == IF Bit(b, k) = 1 THEN b - 2 ^ k ELSE b

\* ~a on 8 bits.
BitNot(a) == 255 - a

\* Arduino's min(a, b) macro.
min(a, b) == IF a < b THEN a ELSE b

(***************************************************************************)
(* Storage.  A null pointer is the empty sequence: every buffer the        *)
(* constructor allocates holds byte_size >= 1 bytes.  Byte i of the C++    *)
(* array is element i + 1 of the sequence.                                 *)
(***************************************************************************)
nullptr == << >>

\* new uint8_t[n](): n value-initialised bytes.
NewBytes(n) == [i \in 1..n |-> 0]

\* The constructor initialising savedTrueIndex with 0 instead of -1.
BBStateControlSavedIndexZero(size, alloc) ==
    LET d0 == IF size > 0 THEN size ELSE 1
        def_size == IF d0 > 254 THEN 254 ELSE d0
        byte_size == ToUint8((def_size + 7) \div 8)
    IN  IF alloc = "ok"
        THEN [def_size |-> def_size, byte_size |-> byte_size,
              array |-> NewBytes(byte_size), savedState |-> NewBytes(byte_size),
              trueIndex |-> -1, savedTrueIndex |-> 0]
        ELSE [def_size |-> 0, byte_size |-> 0,
              array |-> nullptr, savedState |-> nullptr,
              trueIndex |-> -1, savedTrueIndex |-> -1]

\* BBStateControl::BBStateControl(uint8_t size), with the outcome of its
\* allocations.
BBStateControl(size, alloc) ==
    LET d0 == IF size > 0 THEN size ELSE 1
        def_size == IF d0 > 254 THEN 254 ELSE d0
        byte_size == ToUint8((def_size + 7) \div 8)
    IN  IF alloc = "ok"
        THEN [def_size |-> def_size, byte_size |-> byte_size,
              array |-> NewBytes(byte_size), savedState |-> NewBytes(byte_size),
              trueIndex |-> -1, savedTrueIndex |-> -1]
        ELSE [def_size |-> 0, byte_size |-> 0,
              array |-> nullptr, savedState |-> nullptr,
              trueIndex |-> -1, savedTrueIndex |-> -1]

\* A call BBStateControl obj(request): the argument is converted to the
\* constructor's uint8_t parameter.
Construct(request, alloc) == BBStateControl(ToUint8(request), alloc)

\* isValidIndex comparing with <= instead of <.
isValidIndexInclusive(obj, index) ==
    obj.array # nullptr /\ index <= obj.def_size

isValidIndex(obj, index) == obj.array # nullptr /\ index < obj.def_size

setBit(obj, index, state) ==
    IF ~isValidIndex(obj, index) THEN obj
    ELSE LET byte == index \div 8
             bit == index % 8
         IN  [obj EXCEPT !.array[byte + 1] =
                 IF state THEN OrBit(@, bit) ELSE AndNotBit(@, bit)]

getBit(obj, index) ==
    IF ~isValidIndex(obj, index) THEN FALSE
    ELSE LET byte == index \div 8
             bit == index % 8
         IN  Bit(obj.array[byte + 1], bit) # 0

getState(obj, index) == getBit(obj, index)

(***************************************************************************)
(* The loops for (uint8_t i = first; i < stop; i++) body.  The loop state  *)
(* acc is a record whose field done says that the body has returned from   *)
(* the function.  loop names the function the loop belongs to and holds    *)
(* the values its body reads.                                              *)
(***************************************************************************)
\* getFirstTrueIndex: if (getBit(i)) return i;  (the uint8_t i as int8_t)
getFirstTrueIndexBody(loop, acc, i) ==
    IF getBit(loop.obj, i) THEN [done |-> TRUE, ret |-> ToInt8(i)] ELSE acc

\* findState: if (getBit(i) == state) return i;
findStateBody(loop, acc, i) ==
    IF getBit(loop.obj, i) = loop.state
    THEN [done |-> TRUE, ret |-> ToInt8(i)]
    ELSE acc

\* countTrueStates: if (getBit(i)) count++;
countTrueStatesBody(loop, acc, i) ==
    IF getBit(loop.obj, i) THEN [acc EXCEPT !.count = ToUint8(@ + 1)] ELSE acc

\* clearOthers: if (i != index) setBit(i, false);
clearOthersBody(loop, acc, i) ==
    IF i # loop.index THEN [acc EXCEPT !.obj = setBit(@, i, FALSE)] ELSE acc

\* The body of setRangeStates assigning trueIndex at every iteration.
setRangeStatesBodyLastIndex(loop, acc, i) ==
    LET o1 == setBit(acc.obj, i, loop.state)
    IN  [acc EXCEPT !.obj =
            IF loop.state THEN [o1 EXCEPT !.trueIndex = ToInt8(i)] ELSE o1]

\* setRangeStates: setBit(i, state); if (state && trueIndex == -1) trueIndex = i;
setRangeStatesBody(loop, acc, i) ==
    LET o1 == setBit(acc.obj, i, loop.state)
    IN  [acc EXCEPT !.obj =
            IF loop.state /\ o1.trueIndex = -1
            THEN [o1 EXCEPT !.trueIndex = ToInt8(i)]
            ELSE o1]

\* serializeStates: buffer[i] = getBit(i) ? '1' : '0';
serializeStatesBody(loop, acc, i) ==
    [acc EXCEPT !.buffer[i + 1] = IF getBit(loop.obj, i) THEN "1" ELSE "0"]

\* getAllTrueIndices writing every index at position 0.
getAllTrueIndicesBodyNoAdvance(loop, acc, i) ==
    IF getBit(loop.obj, i)
    THEN [acc EXCEPT !.indices[1] = i]
    ELSE acc

\* getAllTrueIndices: if (getBit(i)) indices[pos++] = i;
getAllTrueIndicesBody(loop, acc, i) ==
    IF getBit(loop.obj, i)
    THEN [acc EXCEPT !.indices[acc.pos + 1] = i, !.pos = ToUint8(@ + 1)]
    ELSE acc

LoopBody(loop, acc, i) ==
    CASE loop.name = "getFirstTrueIndex" -> getFirstTrueIndexBody(loop, acc, i)
      [] loop.name = "findState" -> findStateBody(loop, acc, i)
      [] loop.name = "countTrueStates" -> countTrueStatesBody(loop, acc, i)
      [] loop.name = "clearOthers" -> clearOthersBody(loop, acc, i)
      [] loop.name = "setRangeStates" -> setRangeStatesBody(loop, acc, i)
      [] loop.name = "serializeStates" -> serializeStatesBody(loop, acc, i)
      [] loop.name = "getAllTrueIndices" -> getAllTrueIndicesBody(loop, acc, i)

\* The iterations i, i + 1, ... below stop, one after the other.
RECURSIVE Run(_, _, _, _)
Run(loop, acc, i, stop) ==
    IF i < stop /\ ~acc.done
    THEN Run(loop, LoopBody(loop, acc, i), ToUint8(i + 1), stop)
    ELSE acc

\* The whole loop, run in blocks of 16 iterations so that the depth of the
\* evaluation does not grow with the number of iterations.  stop is at most
\* 254 in every loop of the class, so the uint8_t counter never wraps.
RECURSIVE ForLoop(_, _, _, _)
ForLoop(loop, acc, i, stop) ==
    IF i < stop /\ ~acc.done
    THEN LET next == min(i + 16, stop)
         IN  ForLoop(loop, Run(loop, acc, i, next), next, stop)
    ELSE acc

getFirstTrueIndex(obj) ==
    IF obj.array = nullptr THEN -1
    ELSE ForLoop([name |-> "getFirstTrueIndex", obj |-> obj],
                 [done |-> FALSE, ret |-> -1], 0, obj.def_size).ret

findState(obj, state) ==
    IF obj.array = nullptr THEN -1
    ELSE ForLoop([name |-> "findState", obj |-> obj, state |-> state],
                 [done |-> FALSE, ret |-> -1], 0, obj.def_size).ret

countTrueStates(obj) ==
    IF obj.array = nullptr \/ obj.byte_size = 0 THEN 0
    ELSE ForLoop([name |-> "countTrueStates", obj |-> obj],
                 [done |-> FALSE, count |-> 0], 0, obj.def_size).count

\* getAllTrueIndices(count) with the outcome of its allocation: the object
\* afterwards, the count passed back and the array returned.  The elements
\* of new uint8_t[count] hold arbitrary values until written; 255, which is
\* no index, stands for them.
getAllTrueIndices(obj, alloc) ==
    IF obj.array = nullptr \/ obj.byte_size = 0
    THEN [obj |-> obj, count |-> 0, indices |-> nullptr]
    ELSE LET count == countTrueStates(obj)
         IN  IF count = 0
             THEN [obj |-> obj, count |-> 0, indices |-> nullptr]
             ELSE IF alloc # "ok"
             THEN [obj |-> obj, count |-> 0, indices |-> nullptr]
             ELSE [obj |-> obj, count |-> count,
                   indices |->
                     ForLoop([name |-> "getAllTrueIndices", obj |-> obj],
                             [done |-> FALSE, pos |-> 0,
                              indices |-> [k \in 1..count |-> 255]],
                             0, obj.def_size).indices]

isAssignedIndex(obj) == getFirstTrueIndex(obj) # -1

validateSingleState(obj) == countTrueStates(obj) = 1

serializeStatesSize(obj) == ToUint8(obj.def_size + 1)

(***************************************************************************)
(* Character buffers.  Character i of a C++ buffer is element i + 1 of a   *)
(* sequence of one-character strings; the terminator '\0' is NUL.  A       *)
(* buffer of n characters is modelled with the character that follows it   *)
(* in memory, so that a write at position n shows.                         *)
(***************************************************************************)
NUL == "NUL"

\* What a character holds before anything is written to it.
Unwritten == "?"

\* char buffer[n]; and the character after it.
Buffer(n) == [i \in 1..(n + 1) |-> Unwritten]

\* The strings of the source, as sequences of characters.
NOT_INDEX == <<"-", " ", "u", "n", "a", "s", "s", "i", "g", "n", "e", "d">>

INDEX == <<" ", "a", "s", "s", "i", "g", "n", "e", "d">>

\* The conversion %d of printf.
Digit(d) == <<"0", "1", "2", "3", "4", "5", "6", "7", "8", "9">>[d + 1]

RECURSIVE Digits(_)
Digits(n) == IF n < 10 THEN <<Digit(n)>> ELSE Digits(n \div 10) \o <<Digit(n % 10)>>

Decimal(n) == IF n < 0 THEN <<"-">> \o Digits(-n) ELSE Digits(n)

\* snprintf(buffer, bufSize, ...) producing text: as much of text as
\* bufSize - 1 characters hold, then the terminator.
snprintf(buffer, bufSize, text) ==
    IF bufSize = 0 THEN buffer
    ELSE LET len == min(Len(text), bufSize - 1)
         IN  [i \in 1..Len(buffer) |->
                 IF i <= len THEN text[i]
                 ELSE IF i = len + 1 THEN NUL
                 ELSE buffer[i]]

\* strncpy(buffer, text, bufSize): the first bufSize characters of text,
\* and terminators up to bufSize if text is shorter.
strncpy(buffer, text, bufSize) ==
    [i \in 1..Len(buffer) |->
        IF i <= min(Len(text), bufSize) THEN text[i]
        ELSE IF i <= bufSize THEN NUL
        ELSE buffer[i]]

\* getIndex(buffer, bufSize): the buffer afterwards.
getIndex(obj, buffer, bufSize) ==
    IF buffer = nullptr \/ bufSize = 0 THEN buffer
    ELSE LET written ==
                 IF obj.trueIndex >= 0
                 THEN snprintf(buffer, bufSize, Decimal(obj.trueIndex) \o INDEX)
                 ELSE strncpy(buffer, NOT_INDEX, bufSize)
         IN  [written EXCEPT ![bufSize] = NUL]

\* The string a buffer holds: its characters before the first terminator.
CString(buffer) ==
    LET ends == {k \in 1..Len(buffer) : buffer[k] = NUL}
        end == CHOOSE k \in ends : \A j \in ends : k <= j
    IN  SubSeq(buffer, 1, end - 1)

\* serializeStates computing len as min(def_size, bufSize).
serializeStatesNoRoom(obj, buffer, bufSize) ==
    IF obj.array = nullptr \/ obj.byte_size = 0 \/ buffer = nullptr \/ bufSize = 0
    THEN IF bufSize > 0 THEN [buffer EXCEPT ![1] = NUL] ELSE buffer
    ELSE LET len == ToUint8(min(obj.def_size, bufSize))
             filled == ForLoop([name |-> "serializeStates", obj |-> obj],
                               [done |-> FALSE, buffer |-> buffer], 0, len).buffer
         IN  [filled EXCEPT ![len + 1] = NUL]

\* serializeStates(buffer, bufSize): the buffer afterwards.  The callers
\* pass a buffer that is not null.
serializeStates(obj, buffer, bufSize) ==
    IF obj.array = nullptr \/ obj.byte_size = 0 \/ buffer = nullptr \/ bufSize = 0
    THEN IF bufSize > 0 THEN [buffer EXCEPT ![1] = NUL] ELSE buffer
    ELSE LET len == ToUint8(min(obj.def_size, bufSize - 1))
             filled == ForLoop([name |-> "serializeStates", obj |-> obj],
                               [done |-> FALSE, buffer |-> buffer], 0, len).buffer
         IN  [filled EXCEPT ![len + 1] = NUL]

clearOthers(obj, index) ==
    IF obj.array = nullptr \/ obj.byte_size = 0 THEN obj
    ELSE ForLoop([name |-> "clearOthers", index |-> index],
                 [done |-> FALSE, obj |-> obj], 0, obj.def_size).obj

\* setState leaving trueIndex alone when it clears a state.
setStateNoRecompute(obj, index, state, exclusive) ==
    IF ~isValidIndex(obj, index) THEN obj
    ELSE LET o1 == setBit(obj, index, state)
         IN  IF state
             THEN LET o2 == [o1 EXCEPT !.trueIndex = ToInt8(index)]
                  IN  IF exclusive THEN clearOthers(o2, index) ELSE o2
             ELSE o1

\* setState(index, state, exclusive).  index == trueIndex compares the two
\* after integer promotion.
setState(obj, index, state, exclusive) ==
    IF ~isValidIndex(obj, index) THEN obj
    ELSE LET o1 == setBit(obj, index, state)
         IN  IF state
             THEN LET o2 == [o1 EXCEPT !.trueIndex = ToInt8(index)]
                  IN  IF exclusive THEN clearOthers(o2, index) ELSE o2
             ELSE IF index = o1.trueIndex
                  THEN [o1 EXCEPT !.trueIndex = getFirstTrueIndex(o1)]
                  ELSE o1

\* setState(index, exclusive): sets the state to true.
setStateTrue(obj, index, exclusive) == setState(obj, index, TRUE, exclusive)

\* saveState copying the bytes and not trueIndex.
saveStateBytesOnly(obj) ==
    IF obj.array = nullptr \/ obj.savedState = nullptr \/ obj.byte_size = 0
    THEN obj
    ELSE [obj EXCEPT !.savedState = [i \in 1..obj.byte_size |-> obj.array[i]]]

saveState(obj) ==
    IF obj.array = nullptr \/ obj.savedState = nullptr \/ obj.byte_size = 0
    THEN obj
    ELSE [obj EXCEPT !.savedState = [i \in 1..obj.byte_size |-> obj.array[i]],
                     !.savedTrueIndex = obj.trueIndex]

\* restoreSavedState exchanging the saved state and the current one.
restoreSavedStateSwap(obj) ==
    IF obj.array = nullptr \/ obj.savedState = nullptr \/ obj.byte_size = 0
    THEN obj
    ELSE [obj EXCEPT !.array = obj.savedState,
                     !.trueIndex = obj.savedTrueIndex,
                     !.savedState = obj.array,
                     !.savedTrueIndex = obj.trueIndex]

\* restoreSavedState copying the bytes and not trueIndex.
restoreSavedStateBytesOnly(obj) ==
    IF obj.array = nullptr \/ obj.savedState = nullptr \/ obj.byte_size = 0
    THEN obj
    ELSE [obj EXCEPT !.array = [i \in 1..obj.byte_size |-> obj.savedState[i]]]

restoreSavedState(obj) ==
    IF obj.array = nullptr \/ obj.savedState = nullptr \/ obj.byte_size = 0
    THEN obj
    ELSE [obj EXCEPT !.array = [i \in 1..obj.byte_size |-> obj.savedState[i]],
                     !.trueIndex = obj.savedTrueIndex]

toggleState(obj, index) ==
    IF ~isValidIndex(obj, index) THEN obj
    ELSE LET new_state == ~getBit(obj, index)
             o1 == setBit(obj, index, new_state)
         IN  IF new_state
             THEN clearOthers([o1 EXCEPT !.trueIndex = ToInt8(index)], index)
             ELSE IF index = o1.trueIndex
                  THEN [o1 EXCEPT !.trueIndex = getFirstTrueIndex(o1)]
                  ELSE o1

resetArray(obj) ==
    IF obj.array = nullptr \/ obj.byte_size = 0 THEN obj
    ELSE [obj EXCEPT !.array = [i \in 1..obj.byte_size |-> 0],
                     !.trueIndex = -1]

\* setAllStates without its guard.
setAllStatesUnguarded(obj, state) ==
    [obj EXCEPT !.array = [i \in 1..obj.byte_size |->
                              IF state THEN 255 ELSE 0],
                !.trueIndex = IF state THEN 0 ELSE -1]

setAllStates(obj, state) ==
    IF obj.array = nullptr \/ obj.byte_size = 0 THEN obj
    ELSE [obj EXCEPT !.array = [i \in 1..obj.byte_size |->
                                   IF state THEN 255 ELSE 0],
                     !.trueIndex = IF state THEN 0 ELSE -1]

\* setDefaultIndex without the call of resetArray.
setDefaultIndexNoReset(obj) ==
    IF obj.array = nullptr \/ obj.byte_size = 0 THEN obj
    ELSE [setBit(obj, 0, TRUE) EXCEPT !.trueIndex = 0]

setDefaultIndex(obj) ==
    IF obj.array = nullptr \/ obj.byte_size = 0 THEN obj
    ELSE [setBit(resetArray(obj), 0, TRUE) EXCEPT !.trueIndex = 0]

\* setRangeStates without the call of resetArray.
setRangeStatesNoReset(obj, start, end, state) ==
    IF obj.array = nullptr \/ start >= obj.def_size THEN obj
    ELSE LET end1 == ToUint8(min(end, obj.def_size - 1))
         IN  ForLoop([name |-> "setRangeStates", state |-> state],
                     [done |-> FALSE, obj |-> obj], start, end1 + 1).obj

\* end is clamped to def_size - 1 <= 253, so i <= end is i < end + 1.
setRangeStates(obj, start, end, state) ==
    IF obj.array = nullptr \/ start >= obj.def_size THEN obj
    ELSE LET end1 == ToUint8(min(end, obj.def_size - 1))
         IN  ForLoop([name |-> "setRangeStates", state |-> state],
                     [done |-> FALSE, obj |-> resetArray(obj)],
                     start, end1 + 1).obj

invertStates(obj) ==
    IF obj.array = nullptr \/ obj.byte_size = 0 THEN obj
    ELSE LET inverted == [i \in 1..obj.byte_size |-> BitNot(obj.array[i])]
             bits_in_last == obj.def_size % 8
             masked == IF bits_in_last # 0
                       THEN [inverted EXCEPT ![obj.byte_size] =
                                BitAnd(@, (2 ^ bits_in_last) - 1)]
                       ELSE inverted
             o1 == [obj EXCEPT !.array = masked]
         IN  [o1 EXCEPT !.trueIndex = getFirstTrueIndex(o1)]

\* copyStatesFrom without the comparison of the sizes.
copyStatesFromAnySize(obj, src) ==
    IF obj.array = nullptr \/ src.array = nullptr
    THEN [obj |-> obj, ret |-> FALSE]
    ELSE [obj |-> [obj EXCEPT !.array = [i \in 1..obj.byte_size |-> src.array[i]],
                              !.trueIndex = src.trueIndex],
          ret |-> TRUE]

\* copyStatesFrom(src) called on obj: the object afterwards and the value
\* returned.
copyStatesFrom(obj, src) ==
    IF obj.array = nullptr \/ src.array = nullptr \/ obj.def_size # src.def_size
    THEN [obj |-> obj, ret |-> FALSE]
    ELSE [obj |-> [obj EXCEPT !.array = [i \in 1..obj.byte_size |-> src.array[i]],
                              !.trueIndex = src.trueIndex],
          ret |-> TRUE]

(***************************************************************************)
(* The program: two objects and the calls made on them.                    *)
(***************************************************************************)
VARIABLES
    self,       \* the object under the calls
    source,     \* the object passed to copyStatesFrom
    request,    \* the size self was constructed with
    alloc,      \* the outcome of the allocations in the constructor of self
    atSave,     \* array and trueIndex of self when saveState last copied them
    lastOp,     \* the last call made: name, arguments and returned value
    running     \* the call of self that is executed loop iteration by loop
                \* iteration, its loop counter and its locals

vars == <<self, source, request, alloc, atSave, lastOp, running>>

\* The index arguments passed to obj: every index of an object of at most
\* MaxSize states, the last index of a larger one, and the
\* first invalid index.
Indexes(obj) ==
    IF obj.def_size <= MaxSize
    THEN 0..obj.def_size
    ELSE {obj.def_size - 1, obj.def_size}

\* The bufSize arguments passed to serializeStates of obj: every size up to
\* MaxBufSize for an object of at most MaxSize states; for a larger one a
\* small size, the size that is one character short and the exact size.
BufSizes(obj) ==
    IF obj.def_size <= MaxSize
    THEN 1..MaxBufSize
    ELSE {MaxBufSize, obj.def_size, obj.def_size + 1}

\* The size of the buffer passed to getIndex: char indexBuf[16].
IndexBufSize == 16

\* The end arguments of setRangeStates: the same, and the largest uint8_t.
Ends(obj) == Indexes(obj) \cup {255}

NoSave == [saved |-> FALSE, array |-> nullptr, trueIndex |-> -1]

\* No call is executed iteration by iteration.
Idle ==
    [pc |-> "idle", name |-> "", i |-> 0, end |-> 0, state |-> FALSE,
     count |-> 0, wrapped |-> FALSE]

Op(name, index, end, state, exclusive, ret) ==
    [op |-> name, index |-> index, end |-> end, state |-> state,
     exclusive |-> exclusive, ret |-> ret]

\* self is constructed with one of sizes; source with the same size or one
\* more if others, and with the same size, its allocations succeeding,
\* otherwise.
InitWith(sizes, others) ==
    /\ request \in sizes
    /\ alloc \in Allocs
    /\ self = Construct(request, alloc)
    /\ \E req \in (IF others THEN {request, request + 1} ELSE {request}),
          a \in (IF others THEN {"ok", "array_fails"} ELSE {"ok"}) :
           source = Construct(req, a)
    /\ atSave = NoSave
    /\ lastOp = Op("construct", 0, 0, FALSE, FALSE, FALSE)
    /\ running = Idle

Init == InitWith(SmallSizes, TRUE)

InitWide == InitWith(WideSizes, FALSE)

SetStateTrue ==
    \E index \in Indexes(self), exclusive \in BOOLEAN :
        /\ self' = setStateTrue(self, index, exclusive)
        /\ lastOp' = Op("setStateTrue", index, 0, TRUE, exclusive, FALSE)
        /\ UNCHANGED <<source, request, alloc, atSave, running>>

SetState ==
    \E index \in Indexes(self), state \in BOOLEAN, exclusive \in BOOLEAN :
        /\ self' = setState(self, index, state, exclusive)
        /\ lastOp' = Op("setState", index, 0, state, exclusive, FALSE)
        /\ UNCHANGED <<source, request, alloc, atSave, running>>

SaveState ==
    /\ self' = saveState(self)
    /\ atSave' = IF self.array = nullptr \/ self.savedState = nullptr
                 THEN atSave
                 ELSE [saved |-> TRUE, array |-> self.array,
                       trueIndex |-> self.trueIndex]
    /\ lastOp' = Op("saveState", 0, 0, FALSE, FALSE, FALSE)
    /\ UNCHANGED <<source, request, alloc, running>>

RestoreSavedState ==
    /\ self' = restoreSavedState(self)
    /\ lastOp' = Op("restoreSavedState", 0, 0, FALSE, FALSE, FALSE)
    /\ UNCHANGED <<source, request, alloc, atSave, running>>

ToggleState ==
    \E index \in Indexes(self) :
        /\ self' = toggleState(self, index)
        /\ lastOp' = Op("toggleState", index, 0, FALSE, FALSE, FALSE)
        /\ UNCHANGED <<source, request, alloc, atSave, running>>

ResetArray ==
    /\ self' = resetArray(self)
    /\ lastOp' = Op("resetArray", 0, 0, FALSE, FALSE, FALSE)
    /\ UNCHANGED <<source, request, alloc, atSave, running>>

SetAllStates ==
    \E state \in BOOLEAN :
        /\ self' = setAllStates(self, state)
        /\ lastOp' = Op("setAllStates", 0, 0, state, FALSE, FALSE)
        /\ UNCHANGED <<source, request, alloc, atSave, running>>

SetDefaultIndex ==
    /\ self' = setDefaultIndex(self)
    /\ lastOp' = Op("setDefaultIndex", 0, 0, FALSE, FALSE, FALSE)
    /\ UNCHANGED <<source, request, alloc, atSave, running>>

SetRangeStates ==
    \E start \in Indexes(self), end \in Ends(self), state \in BOOLEAN :
        /\ self' = setRangeStates(self, start, end, state)
        /\ lastOp' = Op("setRangeStates", start, end, state, FALSE, FALSE)
        /\ UNCHANGED <<source, request, alloc, atSave, running>>

InvertStates ==
    /\ self' = invertStates(self)
    /\ lastOp' = Op("invertStates", 0, 0, FALSE, FALSE, FALSE)
    /\ UNCHANGED <<source, request, alloc, atSave, running>>

\* self.copyStatesFrom(source)
CopyStatesFrom ==
    LET r == copyStatesFrom(self, source)
    IN  /\ self' = r.obj
        /\ lastOp' = Op("copyStatesFrom", 0, 0, FALSE, FALSE, r.ret)
        /\ UNCHANGED <<source, request, alloc, atSave, running>>

\* self.copyStatesFrom(self)
CopyStatesFromSelf ==
    LET r == copyStatesFrom(self, self)
    IN  /\ self' = r.obj
        /\ lastOp' = Op("copyStatesFromSelf", 0, 0, FALSE, FALSE, r.ret)
        /\ UNCHANGED <<source, request, alloc, atSave, running>>

\* source.setState(def_size - 1, true, false) and source.setAllStates(true):
\* the calls that give the copied object its contents.
SourceSetState ==
    LET index == source.def_size - 1
    IN  /\ index >= 0
        /\ source' = setState(source, index, TRUE, FALSE)
        /\ lastOp' = Op("source.setState", index, 0, TRUE, FALSE, FALSE)
        /\ UNCHANGED <<self, request, alloc, atSave, running>>

SourceSetAllStates ==
    /\ source' = setAllStates(source, TRUE)
    /\ lastOp' = Op("source.setAllStates", 0, 0, TRUE, FALSE, FALSE)
    /\ UNCHANGED <<self, request, alloc, atSave, running>>

\* The calls on self.
NextSelf ==
    \/ SetStateTrue
    \/ SetState
    \/ SaveState
    \/ RestoreSavedState
    \/ ToggleState
    \/ ResetArray
    \/ SetAllStates
    \/ SetDefaultIndex
    \/ SetRangeStates
    \/ InvertStates
    \/ CopyStatesFrom
    \/ CopyStatesFromSelf

Next ==
    \/ NextSelf
    \/ SourceSetState
    \/ SourceSetAllStates

\* Objects of at most MaxSize states, and a source that is written too.
Spec == Init /\ [][Next]_vars

\* Objects of more than 128 states, or requested with a size above 255.
SpecWide == InitWide /\ [][NextSelf]_vars

(***************************************************************************)
(* The loops executed one iteration at a time, with the uint8_t counter i  *)
(* incremented modulo 256: setRangeStates, whose loop runs while           *)
(* i <= end, and countTrueStates, whose loop runs while i < def_size as    *)
(* the loops of the other functions do.                                    *)
(***************************************************************************)
\* The sizes requested: the smallest, one of two bytes, and the largest.
LoopSizes == {1, 9, 254}

\* The start and end arguments of setRangeStates.
LoopArgs == {0, 1, 8, 9, 127, 128, 253, 254, 255}

InitLoop == InitWith(LoopSizes, FALSE)

\* end as passed, without end = min(end, def_size - 1).
setRangeStatesEndUnclamped(obj, end) == end

\* end = min(end, def_size - 1);
setRangeStatesEnd(obj, end) == ToUint8(min(end, obj.def_size - 1))

\* setRangeStates(start, end, state) up to its loop: the guard, the clamping
\* of end, resetArray() and i = start.
CallSetRangeStates ==
    \E start \in LoopArgs, end \in LoopArgs, state \in BOOLEAN :
        /\ running.pc = "idle"
        /\ lastOp' = Op("setRangeStates", start, end, state, FALSE, FALSE)
        /\ IF self.array = nullptr \/ start >= self.def_size
           THEN /\ running' = [Idle EXCEPT !.pc = "returned",
                                           !.name = "setRangeStates"]
                /\ self' = self
           ELSE /\ running' = [Idle EXCEPT !.pc = "loop",
                                           !.name = "setRangeStates",
                                           !.i = start,
                                           !.end = setRangeStatesEnd(self, end),
                                           !.state = state]
                /\ self' = resetArray(self)
        /\ UNCHANGED <<source, request, alloc, atSave>>

\* One iteration: i <= end holds, the body is executed and i incremented.
SetRangeStatesStep ==
    /\ running.pc = "loop"
    /\ running.name = "setRangeStates"
    /\ running.i <= running.end
    /\ self' = setRangeStatesBody([state |-> running.state],
                                  [obj |-> self], running.i).obj
    /\ running' = [running EXCEPT !.i = ToUint8(@ + 1),
                                  !.wrapped = @ \/ running.i = 255]
    /\ UNCHANGED <<source, request, alloc, atSave, lastOp>>

\* i <= end fails: the function returns.
SetRangeStatesReturn ==
    /\ running.pc = "loop"
    /\ running.name = "setRangeStates"
    /\ ~(running.i <= running.end)
    /\ running' = [running EXCEPT !.pc = "returned"]
    /\ UNCHANGED <<self, source, request, alloc, atSave, lastOp>>

\* countTrueStates() up to its loop, called first or after setRangeStates
\* has returned.
CallCountTrueStates ==
    /\ \/ running.pc = "idle"
       \/ running.pc = "returned" /\ running.name = "setRangeStates"
    /\ lastOp' = Op("countTrueStates", 0, 0, FALSE, FALSE, FALSE)
    /\ running' = IF self.array = nullptr \/ self.byte_size = 0
                  THEN [Idle EXCEPT !.pc = "returned",
                                    !.name = "countTrueStates"]
                  ELSE [Idle EXCEPT !.pc = "loop",
                                    !.name = "countTrueStates"]
    /\ UNCHANGED <<self, source, request, alloc, atSave>>

CountTrueStatesStep ==
    /\ running.pc = "loop"
    /\ running.name = "countTrueStates"
    /\ running.i < self.def_size
    /\ running' = [running EXCEPT
                       !.count = countTrueStatesBody([obj |-> self],
                                     [count |-> running.count], running.i).count,
                       !.i = ToUint8(@ + 1),
                       !.wrapped = @ \/ running.i = 255]
    /\ UNCHANGED <<self, source, request, alloc, atSave, lastOp>>

CountTrueStatesReturn ==
    /\ running.pc = "loop"
    /\ running.name = "countTrueStates"
    /\ ~(running.i < self.def_size)
    /\ running' = [running EXCEPT !.pc = "returned"]
    /\ UNCHANGED <<self, source, request, alloc, atSave, lastOp>>

NextLoop ==
    \/ CallSetRangeStates
    \/ SetRangeStatesStep
    \/ SetRangeStatesReturn
    \/ CallCountTrueStates
    \/ CountTrueStatesStep
    \/ CountTrueStatesReturn

\* A call that has started goes on: the processor executes the next
\* iteration or the return whenever there is one to execute.
SpecLoop ==
    /\ InitLoop
    /\ [][NextLoop]_vars
    /\ WF_vars(SetRangeStatesStep)
    /\ WF_vars(SetRangeStatesReturn)
    /\ WF_vars(CountTrueStatesStep)
    /\ WF_vars(CountTrueStatesReturn)

(***************************************************************************)
(* The calls that keep at most one state true: setState with exclusive =   *)
(* true, toggleState, resetArray, setDefaultIndex, saveState and           *)
(* restoreSavedState, on objects of every size.                            *)
(***************************************************************************)
InitOneHot == InitWith(SmallSizes \cup WideSizes, FALSE)

\* setState(index) and setState(index, true): exclusive is true.
SetStateTrueExclusive ==
    \E index \in Indexes(self) :
        /\ self' = setStateTrue(self, index, TRUE)
        /\ lastOp' = Op("setStateTrue", index, 0, TRUE, TRUE, FALSE)
        /\ UNCHANGED <<source, request, alloc, atSave, running>>

\* setState(index, state) and setState(index, state, true).
SetStateExclusive ==
    \E index \in Indexes(self), state \in BOOLEAN :
        /\ self' = setState(self, index, state, TRUE)
        /\ lastOp' = Op("setState", index, 0, state, TRUE, FALSE)
        /\ UNCHANGED <<source, request, alloc, atSave, running>>

NextOneHot ==
    \/ SetStateTrueExclusive
    \/ SetStateExclusive
    \/ ToggleState
    \/ ResetArray
    \/ SetDefaultIndex
    \/ SaveState
    \/ RestoreSavedState

SpecOneHot == InitOneHot /\ [][NextOneHot]_vars

(***************************************************************************)
(* Properties.                                                             *)
(***************************************************************************)
\* The lowest index below def_size whose bit is state, or -1.
LowestIndex(obj, state) ==
    LET S == {i \in 0..(obj.def_size - 1) : getBit(obj, i) = state}
    IN  IF S = {} THEN -1 ELSE CHOOSE i \in S : \A j \in S : i <= j

\* The bits of the last byte of the array at positions def_size and above.
PaddingBits(obj) ==
    {p \in obj.def_size..(8 * obj.byte_size - 1) :
        Bit(obj.array[(p \div 8) + 1], p % 8) = 1}

\* The object every failed construction leaves.
Inert ==
    [def_size |-> 0, byte_size |-> 0, array |-> nullptr,
     savedState |-> nullptr, trueIndex |-> -1, savedTrueIndex |-> -1]

\* C1: in every reachable state trueIndex is -1 or the index of a state
\* that is true.
C1_TrueIndexIsTrueOrNone ==
    \/ self.trueIndex = -1
    \/ /\ self.trueIndex \in 0..(self.def_size - 1)
       /\ getState(self, self.trueIndex)

\* C2: after restoreSavedState the array and trueIndex are those that the
\* most recent saveState copied, whatever was called in between.
C2_RestoreReproducesSave ==
    (lastOp.op = "restoreSavedState" /\ atSave.saved) =>
        /\ self.array = atSave.array
        /\ self.trueIndex = atSave.trueIndex

\* C2 witness: a restore brought back a saved pattern of two true states
\* whose trueIndex was not the first of them.
C2_Witness ==
    /\ lastOp.op = "restoreSavedState"
    /\ atSave.saved
    /\ self.trueIndex = 1
    /\ countTrueStates(self) = 2

\* C3: after setState(i, exclusive = true) on a valid index, state i is
\* true, exactly one state is true and getFirstTrueIndex() is i.
C3_ExclusiveSetTrue ==
    (/\ lastOp.op = "setStateTrue"
     /\ lastOp.exclusive
     /\ lastOp.index < self.def_size) =>
        /\ getState(self, lastOp.index)
        /\ countTrueStates(self) = 1
        /\ getFirstTrueIndex(self) = lastOp.index

\* C4: after setRangeStates(start, end, state) with start < def_size, state
\* i is true exactly when state is true and start <= i <= min(end,
\* def_size - 1).
C4_RangeResetsThenSets ==
    (lastOp.op = "setRangeStates" /\ lastOp.index < self.def_size) =>
        \A i \in 0..(self.def_size - 1) :
            getState(self, i) <=>
                /\ lastOp.state
                /\ lastOp.index <= i
                /\ i <= min(lastOp.end, self.def_size - 1)

\* C4 witness: a range starting above index 0 whose end was clamped.
C4_Witness ==
    /\ lastOp.op = "setRangeStates"
    /\ lastOp.state
    /\ lastOp.index = 1
    /\ lastOp.end = 255
    /\ self.def_size = 2
    /\ getState(self, 1)
    /\ ~getState(self, 0)

\* C5: setState, toggleState and setRangeStates called with an index (a
\* start) that is not below def_size leave the whole object, saved state
\* included, as it was, and getState of such an index is false.
C5_InvalidIndexIsNoOp ==
    [][(/\ lastOp'.op \in {"setStateTrue", "setState", "toggleState",
                           "setRangeStates"}
        /\ lastOp'.index >= self.def_size) =>
            /\ self' = self
            /\ ~getState(self', lastOp'.index)
            /\ ~getState(self', 255)]_vars

\* C5 witness: toggleState with the first invalid index, on an object that
\* holds true states and a saved state.
C5_Witness ==
    /\ lastOp.op = "toggleState"
    /\ lastOp.index = self.def_size
    /\ self.array # nullptr
    /\ countTrueStates(self) = 2
    /\ atSave.saved

\* C6: copyStatesFrom returns true exactly when both objects are allocated
\* and of the same def_size; then the array and trueIndex are the source's,
\* otherwise they are unchanged; the source is unchanged.
C6_CopyStatesFrom ==
    [][(lastOp'.op = "copyStatesFrom") =>
            /\ lastOp'.ret <=> (/\ self.array # nullptr
                                /\ source.array # nullptr
                                /\ self.def_size = source.def_size)
            /\ lastOp'.ret =>
                   /\ self'.array = source.array
                   /\ self'.trueIndex = source.trueIndex
            /\ ~lastOp'.ret =>
                   /\ self'.array = self.array
                   /\ self'.trueIndex = self.trueIndex
            /\ source' = source]_vars

\* C6 witness: a copy that succeeded from a source whose only true state
\* is not state 0.
C6_Witness ==
    /\ lastOp.op = "copyStatesFrom"
    /\ lastOp.ret
    /\ self.trueIndex = 1
    /\ getState(self, 1)
    /\ ~getState(self, 0)

\* C7: when an allocation of the constructor failed, the object is and
\* stays the inert one, the queries return their defaults and
\* copyStatesFrom returns false in both directions.
C7_AllocationFailureIsInert ==
    (alloc # "ok") =>
        /\ self = Inert
        /\ ~getState(self, 0)
        /\ getFirstTrueIndex(self) = -1
        /\ findState(self, TRUE) = -1
        /\ findState(self, FALSE) = -1
        /\ countTrueStates(self) = 0
        /\ ~copyStatesFrom(self, source).ret
        /\ ~copyStatesFrom(source, self).ret

\* C7 witness: setAllStates(true) was called on an object whose second
\* allocation failed, with an allocated source at hand.
C7_Witness ==
    /\ alloc = "savedState_fails"
    /\ lastOp.op = "setAllStates"
    /\ lastOp.state
    /\ source.array # nullptr

\* C8: a request of 0 constructs what a request of 1 constructs, and a
\* request above 254 what a request of 254 constructs.
C8_SizeClamped ==
    (lastOp.op = "construct" /\ alloc = "ok") =>
        /\ request = 0 => self = Construct(1, "ok")
        /\ request > 254 => self = Construct(254, "ok")

\* C9: no bit of the last byte at a position def_size or above is ever set.
C9_PaddingBitsFalse ==
    self.array # nullptr => PaddingBits(self) = {}

\* C10: trueIndex is in -1..def_size - 1, getFirstTrueIndex and findState
\* return the lowest matching index or -1, and after setState(i) on a valid
\* index trueIndex is i.
C10_IndexRange ==
    /\ self.trueIndex \in -1..(self.def_size - 1)
    /\ getFirstTrueIndex(self) = LowestIndex(self, TRUE)
    /\ findState(self, TRUE) = LowestIndex(self, TRUE)
    /\ findState(self, FALSE) = LowestIndex(self, FALSE)
    /\ (lastOp.op = "setStateTrue" /\ lastOp.index < self.def_size) =>
           /\ self.trueIndex = lastOp.index
           /\ lastOp.exclusive => getFirstTrueIndex(self) = lastOp.index

\* C11: setState(i, false) on a valid index leaves state i false; when
\* trueIndex was i it becomes getFirstTrueIndex() of the remaining states
\* (-1 if none is true), and otherwise trueIndex is unchanged.
C11_ClearRecomputes ==
    [][(/\ lastOp'.op = "setState"
        /\ ~lastOp'.state
        /\ lastOp'.index < self.def_size) =>
            /\ ~getState(self', lastOp'.index)
            /\ IF self.trueIndex = lastOp'.index
               THEN /\ self'.trueIndex = getFirstTrueIndex(self')
                    /\ countTrueStates(self') = 0 => self'.trueIndex = -1
               ELSE self'.trueIndex = self.trueIndex]_vars

\* C11 witness: state 0 was cleared while state 1 is true and trueIndex is 1.
C11_Witness ==
    /\ lastOp.op = "setState"
    /\ ~lastOp.state
    /\ lastOp.index = 0
    /\ getState(self, 1)
    /\ self.trueIndex = 1

\* C12: toggleState(i) on a valid index flips state i.  When the state
\* becomes true, trueIndex is i and every other state is false; when it
\* becomes false, the other states are unchanged, and trueIndex becomes the
\* lowest true index (or -1) if it was i and is unchanged otherwise.
C12_Toggle ==
    [][(lastOp'.op = "toggleState" /\ lastOp'.index < self.def_size) =>
        LET i == lastOp'.index
            others == (0..(self.def_size - 1)) \ {i}
        IN  /\ getState(self', i) = ~getState(self, i)
            /\ getState(self', i) =>
                   /\ self'.trueIndex = i
                   /\ \A j \in others : ~getState(self', j)
            /\ ~getState(self', i) =>
                   /\ \A j \in others : getState(self', j) = getState(self, j)
                   /\ IF self.trueIndex = i
                      THEN self'.trueIndex = LowestIndex(self', TRUE)
                      ELSE self'.trueIndex = self.trueIndex]_vars

\* C13: invertStates flips exactly the states 0..def_size - 1 and leaves
\* trueIndex at the lowest true index (-1 if none); so after
\* setAllStates(true) it leaves no state true, and called on an object
\* with no true state it leaves def_size of them true.
C13_Invert ==
    [][(lastOp'.op = "invertStates" /\ self.array # nullptr) =>
        /\ \A i \in 0..(self.def_size - 1) :
               getState(self', i) = ~getState(self, i)
        /\ self'.trueIndex = LowestIndex(self', TRUE)
        /\ (lastOp.op = "setAllStates" /\ lastOp.state) =>
               countTrueStates(self') = 0
        /\ countTrueStates(self) = 0 =>
               countTrueStates(self') = self.def_size]_vars

\* C14 as stated: restoreSavedState called when saveState never copied
\* anything leaves the array and trueIndex as they were.
C14_RestoreBeforeSaveNoOp ==
    [][(lastOp'.op = "restoreSavedState" /\ ~atSave.saved) =>
            /\ self'.array = self.array
            /\ self'.trueIndex = self.trueIndex]_vars

\* C14 amended: restoreSavedState called when saveState never copied
\* anything returns the object to what the constructor built, whatever was
\* called before; it changes nothing only if the object was in that state.
C14_RestoreBeforeSaveConstructs ==
    (lastOp.op = "restoreSavedState" /\ ~atSave.saved) =>
        self = Construct(request, alloc)

\* C14 witness: a restore with nothing saved on an allocated object of one
\* state.
C14_Witness ==
    /\ lastOp.op = "restoreSavedState"
    /\ ~atSave.saved
    /\ alloc = "ok"
    /\ request = 1
    /\ self.array = <<0>>

\* C15: restoreSavedState on an allocated object, when saveState never
\* copied anything, leaves every state false and trueIndex -1.
C15_RestoreBeforeSaveClears ==
    (/\ lastOp.op = "restoreSavedState"
     /\ ~atSave.saved
     /\ self.array # nullptr) =>
        /\ \A i \in 0..(self.def_size - 1) : ~getState(self, i)
        /\ countTrueStates(self) = 0
        /\ self.trueIndex = -1

\* C15 witness: a restore with nothing saved on an allocated object of two
\* states.
C15_Witness ==
    /\ lastOp.op = "restoreSavedState"
    /\ ~atSave.saved
    /\ self.def_size = 2
    /\ ~getState(self, 0)
    /\ ~getState(self, 1)

C17_TrueIndexIsFirstTrue ==
    self.trueIndex = getFirstTrueIndex(self)

\* C18: after setState(index, state, exclusive = true) on a valid index,
\* every state other than index is false, whether state is true or false.
C18_ExclusiveClearsOthers ==
    (/\ lastOp.op = "setState"
     /\ lastOp.exclusive
     /\ lastOp.index < self.def_size) =>
        \A j \in (0..(self.def_size - 1)) \ {lastOp.index} :
            ~getState(self, j)

\* C19: serializeStates on a buffer of n >= 1 characters writes
\* min(def_size, n - 1) characters, character i being '1' if state i is
\* true and '0' otherwise, then the terminator, and nothing else in or
\* after the buffer; serializeStatesSize() is def_size + 1 in every state.
C19_Serialize ==
    /\ \A n \in BufSizes(self) :
           LET out == serializeStates(self, Buffer(n), n)
               len == min(self.def_size, n - 1)
           IN  /\ \A i \in 0..(len - 1) :
                      out[i + 1] = IF getState(self, i) THEN "1" ELSE "0"
               /\ out[len + 1] = NUL
               /\ \A i \in (len + 1)..n : out[i + 1] = Unwritten
    /\ serializeStatesSize(self) = self.def_size + 1

\* C19 witness: an object of two states, the second one true, serialized
\* into a buffer too small for it and into one with room to spare.
C19_Witness ==
    /\ self.def_size = 2
    /\ serializeStates(self, Buffer(2), 2) = <<"0", NUL, Unwritten>>
    /\ serializeStates(self, Buffer(4), 4) =
           <<"0", "1", NUL, Unwritten, Unwritten>>
    /\ serializeStatesSize(self) = 3

\* C20: in every reachable state countTrueStates() is the number of true
\* states, isAssignedIndex() says that it is above 0, validateSingleState()
\* that it is 1, findState(true) and getFirstTrueIndex() are the lowest
\* true index or -1, and findState(false) is the lowest false index or -1.
C20_QueriesAgree ==
    LET trues == {i \in 0..(self.def_size - 1) : getBit(self, i)}
    IN  /\ countTrueStates(self) = Cardinality(trues)
        /\ isAssignedIndex(self) <=> countTrueStates(self) > 0
        /\ validateSingleState(self) <=> countTrueStates(self) = 1
        /\ findState(self, TRUE) = getFirstTrueIndex(self)
        /\ getFirstTrueIndex(self) = LowestIndex(self, TRUE)
        /\ findState(self, FALSE) = LowestIndex(self, FALSE)

\* C21 as stated: getAllTrueIndices passes back countTrueStates() and
\* returns that many indices, those of the true states in ascending order
\* (nothing when no state is true), and leaves the object as it was.
C21_AllTrueIndices ==
    \A a \in IndicesAllocs :
        LET r == getAllTrueIndices(self, a)
            trues == {i \in 0..(self.def_size - 1) : getBit(self, i)}
        IN  /\ r.obj = self
            /\ r.count = countTrueStates(self)
            /\ Len(r.indices) = r.count
            /\ {r.indices[k] : k \in 1..Len(r.indices)} = trues
            /\ \A k \in 1..(Len(r.indices) - 1) :
                   r.indices[k] < r.indices[k + 1]

\* C21 amended: the same when the array of the result is allocated; when
\* its allocation fails, 0 is passed back and nothing is returned; the
\* object is left as it was in both cases.
C21_AllTrueIndicesIfAllocated ==
    \A a \in IndicesAllocs :
        LET r == getAllTrueIndices(self, a)
            trues == {i \in 0..(self.def_size - 1) : getBit(self, i)}
        IN  /\ r.obj = self
            /\ Len(r.indices) = r.count
            /\ a = "ok" =>
                   /\ r.count = countTrueStates(self)
                   /\ {r.indices[k] : k \in 1..Len(r.indices)} = trues
                   /\ \A k \in 1..(Len(r.indices) - 1) :
                          r.indices[k] < r.indices[k + 1]
                   /\ trues = {} => (r.count = 0 /\ r.indices = nullptr)
            /\ a # "ok" => (r.count = 0 /\ r.indices = nullptr)

\* C21 witness: two true states, listed when the allocation succeeds and
\* not when it fails.
C21_Witness ==
    /\ self.def_size = 2
    /\ getAllTrueIndices(self, "ok").indices = <<0, 1>>
    /\ getAllTrueIndices(self, "ok").count = 2
    /\ getAllTrueIndices(self, "indices_fails").count = 0

\* C22: getIndex reports the decimal trueIndex followed by " assigned"
\* when trueIndex is not -1 and "- unassigned" otherwise, and in every
\* reachable state it reports "- unassigned" exactly when no state is true.
C22_IndexDescription ==
    LET text == CString(getIndex(self, Buffer(IndexBufSize), IndexBufSize))
    IN  /\ text = IF self.trueIndex # -1
                  THEN Decimal(self.trueIndex) \o INDEX
                  ELSE NOT_INDEX
        /\ text = NOT_INDEX <=> countTrueStates(self) = 0

\* C23: on an allocated object setDefaultIndex() leaves what resetArray()
\* followed by setState(0, exclusive = true) leaves: state 0 alone is true,
\* trueIndex is 0 and the saved state is unchanged.
C23_SetDefaultIndex ==
    [][(lastOp'.op = "setDefaultIndex" /\ self.array # nullptr) =>
        /\ self' = setStateTrue(resetArray(self), 0, TRUE)
        /\ \A i \in 0..(self.def_size - 1) : getState(self', i) <=> i = 0
        /\ self'.trueIndex = 0
        /\ self'.savedState = self.savedState
        /\ self'.savedTrueIndex = self.savedTrueIndex]_vars

\* C23 witness: setDefaultIndex was called on an object of two states
\* whose saved state holds both states true.
C23_Witness ==
    /\ lastOp.op = "setDefaultIndex"
    /\ self.def_size = 2
    /\ self.savedState = <<3>>
    /\ self.array = <<1>>
    /\ self.trueIndex = 0

\* C24: every call returns, for the sizes 1 to 254 and all arguments: a
\* loop that has started reaches its return, its uint8_t counter never
\* going from 255 to 0, and what it leaves is what the function computes.
C24_Terminates ==
    /\ [](~running.wrapped)
    /\ [](running.pc = "loop" => <>(running.pc = "returned"))
    /\ []((running.pc = "returned" /\ running.name = "setRangeStates") =>
              self = setRangeStates(Construct(request, alloc),
                                    lastOp.index, lastOp.end, lastOp.state))
    /\ []((running.pc = "returned" /\ running.name = "countTrueStates") =>
              running.count = countTrueStates(self))

\* C24 witness: setRangeStates(253, 255, true) has returned on an object
\* of 254 states, its counter having stopped at 254.
C24_Witness ==
    /\ running.pc = "returned"
    /\ running.name = "setRangeStates"
    /\ self.def_size = 254
    /\ lastOp.index = 253
    /\ lastOp.end = 255
    /\ running.i = 254
    /\ getState(self, 253)

\* C25: from a constructed object, calls of setState with exclusive = true,
\* toggleState, resetArray, setDefaultIndex, saveState and
\* restoreSavedState only keep at most one state true and trueIndex equal
\* to getFirstTrueIndex().
C25_OneHot ==
    /\ countTrueStates(self) <= 1
    /\ self.trueIndex = getFirstTrueIndex(self)

\* C26: savedState and savedTrueIndex of an object change in saveState
\* only: every other call, restoreSavedState and copyStatesFrom (on the
\* copying and on the copied object) included, leaves them as they were.
\* So a second restoreSavedState changes nothing, and restoreSavedState
\* straight after saveState leaves the array and trueIndex as they were.
C26_SnapshotFrame ==
    [][/\ lastOp'.op # "saveState" =>
              /\ self'.savedState = self.savedState
              /\ self'.savedTrueIndex = self.savedTrueIndex
       /\ source'.savedState = source.savedState
       /\ source'.savedTrueIndex = source.savedTrueIndex
       /\ (/\ lastOp.op \in {"saveState", "restoreSavedState"}
           /\ lastOp'.op = "restoreSavedState") => self' = self]_vars

\* C26 witness: a restore on an object whose saved state, taken when state
\* 1 alone was true, differs from the constructed one.
C26_Witness ==
    /\ lastOp.op = "restoreSavedState"
    /\ atSave.saved
    /\ self.savedState = <<2>>
    /\ self.savedTrueIndex = 1
    /\ self.array = <<2>>
    /\ self.trueIndex = 1

\* C27: in every reachable state of an allocated object trueIndex is -1
\* exactly when no state is true.
C27_NoIndexIffNoneTrue ==
    self.array # nullptr =>
        (self.trueIndex = -1 <=> countTrueStates(self) = 0)

\* C28: setState(i, true, exclusive = false) on a valid index leaves
\* state i true, trueIndex i and every other state as it was;
\* setState(i, false, exclusive) leaves every state other than i as it was,
\* whatever exclusive is.
C28_SetStateFrame ==
    [][(/\ lastOp'.op = "setState"
        /\ lastOp'.index < self.def_size
        /\ lastOp'.state => ~lastOp'.exclusive) =>
        LET i == lastOp'.index
        IN  /\ getState(self', i) = lastOp'.state
            /\ lastOp'.state => self'.trueIndex = i
            /\ \A j \in (0..(self.def_size - 1)) \ {i} :
                   getState(self', j) = getState(self, j)]_vars

\* C29: invertStates() called twice leaves every state as it was, and
\* trueIndex at the lowest true index (or -1), whatever trueIndex was.
C29_InvertTwice ==
    LET twice == invertStates(invertStates(self))
    IN  /\ \A i \in 0..(self.def_size - 1) :
               getState(twice, i) = getState(self, i)
        /\ twice.trueIndex = LowestIndex(self, TRUE)

====
